---- MODULE Spec2Model ----
(***************************************************************************)
(* A model of the pyGestalt packet codec (packets.py): templates, packet   *)
(* tokens and the three-pass template.encode, driven by callers that share *)
(* one template object.                                                    *)
(*                                                                         *)
(* Python values are modelled as records of one shape,                     *)
(*     [k |-> kind, key |-> string, n |-> integer, l |-> items, t |-> ref] *)
(* so that values of different Python types can be held in one list:       *)
(*   k = "int"              an int, n its value                            *)
(*   k = "list"             a list, l its items                            *)
(*   k = "serializedPacket" a packets.serializedPacket, l its items and    *)
(*                          t = <<template>> its template attribute        *)
(*   k = "str"              a str, l its characters (each k = "chr")       *)
(*   k = "dict"             a dict, l its items, each item carrying its    *)
(*                          dictionary key in the field key                *)
(*   k = "none"             PyNone                                           *)
(*   k = "length", "checksum"  a token object standing in the in-process   *)
(*                          packet (the token returned itself)             *)
(*   k = "packet"           a packets.packet token object given as a value *)
(*   k = "KeyError", ...    a raised exception, l the parts of its message *)
(***************************************************************************)
EXTENDS Integers, Sequences, FiniteSets, TLC

\* ---------------------------------------------------------------- bounds
NumCallers == 2
MaxElements == 25
FlipBits == {0, 7}
MaxPower == 1

Callers == 1..NumCallers

\* ---------------------------------------------------------------- values
V(k, key, n, l) == [k |-> k, key |-> key, n |-> n, l |-> l, t |-> <<>>]
PyInt(n) == V("int", "", n, <<>>)
PyList(l) == V("list", "", 0, l)
PyNone == V("none", "", 0, <<>>)
Chr(c) == V("chr", c, 0, <<>>)
PyStr(cs) == V("str", "", 0, [i \in 1..Len(cs) |-> Chr(cs[i])])
Lit(s) == V("strlit", s, 0, <<>>)
Raise(exc, parts) == V(exc, "", 0, [i \in 1..Len(parts) |-> Lit(parts[i])])
Item(key, v) == [v EXCEPT !.key = key]
PyDict(items) == V("dict", "", 0, items)

ErrorKinds == {"KeyError", "ValueRangeError", "TypeError", "IndexError",
               "AttributeError"}
IsError(v) == v.k \in ErrorKinds

\* key in dict, dict[key]
HasKey(d, key) == \E i \in 1..Len(d.l) : d.l[i].key = key
GetItem(d, key) ==
    LET i == CHOOSE j \in 1..Len(d.l) : d.l[j].key = key
    IN  [d.l[i] EXCEPT !.key = ""]

\* the first raised exception of a list of results, in list order
FirstError(s) == s[CHOOSE i \in 1..Len(s) :
                      IsError(s[i]) /\ \A j \in 1..(i-1) : ~IsError(s[j])]
HasError(s) == \E i \in 1..Len(s) : IsError(s[i])

\* ------------------------------------------------------------- utilities
\* utilities.flattenList: nested lists (and packets) collapsed depth-first,
\* left to right; anything that is not a list is kept as one element.
RECURSIVE flattenList(_)
flattenList(s) ==
    IF Len(s) = 0 THEN <<>>
    ELSE IF Len(s) = 1
         THEN IF s[1].k \in {"list", "serializedPacket"}
              THEN flattenList(s[1].l) ELSE <<s[1]>>
         ELSE LET mid == Len(s) \div 2
              IN  flattenList(SubSeq(s, 1, mid))
                      \o flattenList(SubSeq(s, mid + 1, Len(s)))

RECURSIVE Pow256(_)
Pow256(n) == IF n = 0 THEN 1 ELSE 256 * Pow256(n - 1)

\* the packet recorded in devtests.py line 67: gestaltPacket.encode of
\* _startByte_ 72, _address_ 1, _port_ 72 and the 21 bytes of the encoded
\* payloadTestPacket (xPosition 1025 in two bytes, ..., 'www.fabunit.com')
recordedPacket ==
    <<72, 1, 0, 72, 25, 1, 4, 0, 252, 1, 128, 119, 119, 119, 46, 102, 97, 98,
      117, 110, 105, 116, 46, 99, 111, 109, 203>>

\* the power of 256 that the byte at position i of an unsigned integer of
\* numbytes bytes counts.  The recorded packet holds _address_ 1 in two
\* bytes as 1, 0 and xPosition 1025 as 1, 4: the first byte is the least
\* significant one.
significance(i, numbytes) == i - 1

\* what the conversion does with a value that is negative or does not fit
\* numbytes bytes
valueOutOfRange(integer, numbytes) ==
    Raise("ValueRangeError", <<"value out of range">>)

\* utilities.unsignedIntegerToBytes as packets.py calls it: the unsigned
\* magnitude in numbytes bytes, each byte of the significance of its position
unsignedIntegerToBytes(integer, numbytes) ==
    IF integer < 0 \/ integer >= Pow256(numbytes)
    THEN valueOutOfRange(integer, numbytes)
    ELSE PyList([i \in 1..numbytes |->
                    PyInt((integer \div Pow256(significance(i, numbytes)))
                              % 256)])

\* bit i of a
Bit(a, i) == (a \div (2 ^ i)) % 2

\* a ^ b on byte values
Xor(a, b) ==
      ((Bit(a, 0) + Bit(b, 0)) % 2)
    + ((Bit(a, 1) + Bit(b, 1)) % 2) * 2
    + ((Bit(a, 2) + Bit(b, 2)) % 2) * 4
    + ((Bit(a, 3) + Bit(b, 3)) % 2) * 8
    + ((Bit(a, 4) + Bit(b, 4)) % 2) * 16
    + ((Bit(a, 5) + Bit(b, 5)) % 2) * 32
    + ((Bit(a, 6) + Bit(b, 6)) % 2) * 64
    + ((Bit(a, 7) + Bit(b, 7)) % 2) * 128

\* utilities.CRC: one byte shifted left through the polynomial, eight times
calculateByteCRC(polynomial, byteValue) ==
    LET r[k \in 0..8] ==
            IF k = 0 THEN byteValue
            ELSE IF (r[k - 1] * 2) \div 256 = 1
                 THEN Xor((r[k - 1] * 2) - 256, polynomial)
                 ELSE r[k - 1] * 2
    IN  r[8]

\* the polynomials checksum tokens are made with; 7 is the default
Polynomials == {7}

\* utilities.CRC(polynomial): the table of the CRC of every byte value,
\* made once for each polynomial
crcTables ==
    [polynomial \in Polynomials |->
        [b \in 0..255 |-> calculateByteCRC(polynomial, b)]]

\* the CRC instance of a checksum token, named by its polynomial
CRC(polynomial) == polynomial

\* utilities.CRC.generate over a list of int values: the CRC register,
\* starting from 0, after every byte of the list in order.
\* run[<<crc, lo, hi>>] is the register after bytes lo..hi, entered with crc.
CRC_generate(CRCInstance, byteList) ==
    LET n == Len(byteList)
        crcTable == crcTables[CRCInstance]
        run[a \in (0..255) \X (1..(n + 1)) \X (0..n)] ==
            LET crc == a[1]
                lo == a[2]
                hi == a[3]
            IN  IF lo > hi THEN crc
                ELSE IF lo = hi THEN crcTable[Xor(crc, byteList[lo].n)]
                ELSE run[<<run[<<crc, lo, (lo + hi) \div 2>>],
                           ((lo + hi) \div 2) + 1, hi>>]
    IN  PyInt(run[<<0, 1, n>>])

Ord(c) == CASE c = "a" -> 97 [] c = "b" -> 98 [] c = "w" -> 119
            [] c = "." -> 46 [] OTHER -> 63

\* utilities.stringToList
stringToList(s) == PyList([i \in 1..Len(s.l) |-> PyInt(Ord(s.l[i].key))])

\* ---------------------------------------------------------------- tokens
NoName == [isNone |-> TRUE, s |-> ""]
Name(s) == [isNone |-> FALSE, s |-> s]

\* packetToken.__init__ followed by the subclass init
Token(type, keyName, size, countSelf, CRCInstance, requireEncodeDict, child) ==
    [type |-> type, keyName |-> keyName, size |-> size,
     countSelf |-> countSelf, CRCInstance |-> CRCInstance,
     requireEncodeDict |-> requireEncodeDict, template |-> child]

unsignedInt(keyName, size) ==
    Token("unsignedInt", keyName, size, FALSE, 0, TRUE, <<>>)
length(keyName, size, countSelf) ==
    Token("length", keyName, size, countSelf, 0, FALSE, <<>>)
checksum(keyName, polynomial) ==
    Token("checksum", keyName, 0, FALSE, CRC(polynomial), FALSE, <<>>)
pList(keyName) == Token("pList", keyName, 0, FALSE, 0, TRUE, <<>>)
pString(keyName) == Token("pString", keyName, 0, FALSE, 0, TRUE, <<>>)
packet(keyName) == Token("packet", keyName, 0, FALSE, 0, TRUE, <<>>)
packetTemplate(keyName, child) ==
    Token("packetTemplate", keyName, 0, FALSE, 0, TRUE, <<child>>)
\* a str given as the first argument of template(...)
StrArg(s) == Token("str", s, 0, FALSE, 0, FALSE, <<>>)

\* the token object itself, as it stands in the in-process packet
Self(tok) == V(tok.type, tok.keyName, 0, <<>>)

\* template.__init__
template_init(packetTokens) ==
    IF Len(packetTokens) = 0
    THEN [ok |-> FALSE, name |-> NoName, template |-> <<>>]
    ELSE IF packetTokens[1].type = "str"
         THEN [ok |-> TRUE, name |-> Name(packetTokens[1].keyName),
               template |-> Tail(packetTokens)]
         ELSE [ok |-> TRUE, name |-> NoName, template |-> packetTokens]

\* variant: the value stored as it is given
serializedPacket_notFlattened(value, template) ==
    [V("serializedPacket", "", 0, value) EXCEPT !.t = <<template>>]

\* serializedPacket.__init__
serializedPacket(value, template) ==
    [V("serializedPacket", "", 0, flattenList(value)) EXCEPT !.t = <<template>>]

\* variant: the checksum statement placed before the length statement
PassOrder_checksumFirst == <<"value", "checksum", "length">>

\* the order of the three statements of template.encode
PassOrder == <<"value", "length", "checksum">>

IntsOf(s) == SelectSeq(s, LAMBDA e : e.k = "int")

\* variant: the size of the token not handed on, one byte made
unsignedInt_encode_oneByte(tok, encodeValue, inProcessPacket) ==
    unsignedIntegerToBytes(encodeValue.n, 1)

unsignedInt_encode(tok, encodeValue, inProcessPacket) ==
    unsignedIntegerToBytes(encodeValue.n, tok.size)

\* variant: every element of the flattened packet counted, int or not
length_encode_unfiltered(tok, encodeValue, inProcessPacket) ==
    IF Len(inProcessPacket) > 0
    THEN LET n == Len(flattenList(inProcessPacket))
         IN  unsignedIntegerToBytes(IF tok.countSelf THEN n + 1 ELSE n, tok.size)
    ELSE Self(tok)

\* variant: the in-process packet counted without being flattened
length_encode_unflattened(tok, encodeValue, inProcessPacket) ==
    IF Len(inProcessPacket) > 0
    THEN LET n == Len(IntsOf(inProcessPacket))
         IN  unsignedIntegerToBytes(IF tok.countSelf THEN n + 1 ELSE n, tok.size)
    ELSE Self(tok)

\* variant: countSelf not honoured
length_encode_noCountSelf(tok, encodeValue, inProcessPacket) ==
    IF Len(inProcessPacket) > 0
    THEN unsignedIntegerToBytes(Len(IntsOf(flattenList(inProcessPacket))), tok.size)
    ELSE Self(tok)

\* variant: a value stored in the dictionary under the token's key is used
length_encode_fromDict(tok, encodeValue, inProcessPacket) ==
    IF encodeValue.k = "int"
    THEN unsignedIntegerToBytes(encodeValue.n, tok.size)
    ELSE IF Len(inProcessPacket) > 0
         THEN LET n == Len(IntsOf(flattenList(inProcessPacket)))
              IN  unsignedIntegerToBytes(IF tok.countSelf THEN n + 1 ELSE n, tok.size)
         ELSE Self(tok)

length_encode(tok, encodeValue, inProcessPacket) ==
    IF Len(inProcessPacket) > 0
    THEN LET n == Len(IntsOf(flattenList(inProcessPacket)))
         IN  unsignedIntegerToBytes(IF tok.countSelf THEN n + 1 ELSE n, tok.size)
    ELSE Self(tok)

checksum_encode(tok, encodeValue, inProcessPacket) ==
    IF Len(inProcessPacket) > 0
    THEN CRC_generate(tok.CRCInstance, IntsOf(flattenList(inProcessPacket)))
    ELSE Self(tok)

pList_encode(tok, encodeValue, inProcessPacket) == encodeValue

pString_encode(tok, encodeValue, inProcessPacket) == stringToList(encodeValue)

\* variant: the value converted with serializedPacket.toList, which has no
\* body and returns None
packet_encode_toList(tok, encodeValue, inProcessPacket) == PyNone

packet_encode(tok, encodeValue, inProcessPacket) == PyList(encodeValue.l)

\* variant: the template name appended without the test of templateName
keyNotFound_alwaysNamed(tok, templateName) ==
    Raise("KeyError", <<tok.keyName, " not found in template ",
                        templateName.s, ".">>)

\* the exception of packetToken.encode for a keyName that is not in encodeDict
keyNotFound(tok, templateName) ==
    IF ~templateName.isNone /\ templateName.s # ""
    THEN Raise("KeyError", <<tok.keyName, " not found in template ",
                             templateName.s, ".">>)
    ELSE Raise("KeyError", <<tok.keyName, " not found in template.">>)

RECURSIVE template_encode(_, _, _)
RECURSIVE ApplyPass(_, _, _, _, _)
RECURSIVE token_encode(_, _, _, _, _)

\* variant: the child's tokens encoded from the sub-mapping, without the
\* child's length and checksum statements
packetTemplate_encode_valuesOnly(tok, encodeValue, inProcessPacket, default) ==
    ApplyPass("value", tok.template[1], encodeValue, <<>>, default)

packetTemplate_encode(tok, encodeValue, inProcessPacket, default) ==
    template_encode(tok.template[1], encodeValue, default)

\* packetToken.encode; default is the list object that is the default value
\* of inProcessPacket, shared by every call that omits the argument
token_encode(tok, encodeDict, inProcessPacket, templateName, default) ==
    LET call(encodeValue) ==
            CASE tok.type = "unsignedInt" ->
                     unsignedInt_encode(tok, encodeValue, inProcessPacket)
              [] tok.type = "length" ->
                     length_encode(tok, encodeValue, inProcessPacket)
              [] tok.type = "checksum" ->
                     checksum_encode(tok, encodeValue, inProcessPacket)
              [] tok.type = "pList" ->
                     pList_encode(tok, encodeValue, inProcessPacket)
              [] tok.type = "pString" ->
                     pString_encode(tok, encodeValue, inProcessPacket)
              [] tok.type = "packet" ->
                     packet_encode(tok, encodeValue, inProcessPacket)
              [] tok.type = "packetTemplate" ->
                     packetTemplate_encode(tok, encodeValue, inProcessPacket, default)
    IN  IF HasKey(encodeDict, tok.keyName)
        THEN call(GetItem(encodeDict, tok.keyName))
        ELSE IF tok.requireEncodeDict
             THEN keyNotFound(tok, templateName)
             ELSE call(PyNone)

\* one statement of template.encode: the list comprehension of the pass.
\* The result is the new in-process packet, or the first exception raised.
ApplyPass(kind, T, inputDict, inProcessPacket, default) ==
    LET each ==
          IF kind = "value"
          THEN [i \in 1..Len(T.template) |->
                   token_encode(T.template[i], inputDict, default, T.name, default)]
          ELSE [i \in 1..Len(inProcessPacket) |->
                   IF inProcessPacket[i].k = kind
                   THEN token_encode(T.template[i], inputDict, inProcessPacket,
                                     T.name, default)
                   ELSE inProcessPacket[i]]
        \* the comprehension builds the whole list before it is bound
        new == SubSeq(each, 1, Len(T.template))
    IN  IF HasError(new) THEN FirstError(new) ELSE PyList(new)

\* template.encode, run without interruption
template_encode(T, inputDict, default) ==
    LET r1 == ApplyPass(PassOrder[1], T, inputDict, <<>>, default)
    IN  IF IsError(r1) THEN r1 ELSE
        LET r2 == ApplyPass(PassOrder[2], T, inputDict, r1.l, default)
        IN  IF IsError(r2) THEN r2 ELSE
            LET r3 == ApplyPass(PassOrder[3], T, inputDict, r2.l, default)
            IN  IF IsError(r3) THEN r3 ELSE serializedPacket(r3.l, T)

\* template.decode is declared without a parameter and has an empty body
template_decode(T, args) ==
    IF Len(args) = 0 THEN PyNone
    ELSE Raise("TypeError", <<"decode() takes exactly 1 argument (2 given)">>)

\* the attributes of a template object: the two set by __init__ and the
\* methods of the class
templateAttributes == {"name", "template", "__init__", "__call__", "encode",
                       "decode"}

\* template.findTokenPosition(keyName, bytes): the attribute is looked up on
\* the object before anything is called
template_findTokenPosition(T, keyName, bytes) ==
    IF "findTokenPosition" \in templateAttributes
    THEN PyNone
    ELSE Raise("AttributeError",
               <<"'template' object has no attribute 'findTokenPosition'">>)

\* template.__call__: which method the type of input selects; "packet" is the
\* type of a packets.packet token object
callDispatch(input) ==
    IF input.k = "dict" THEN "encode"
    ELSE IF input.k = "list" \/ input.k = "packet" THEN "decode"
    ELSE "none"

\* template.__call__ for an input that is not a dict
template_call(T, input) ==
    IF callDispatch(input) = "decode" THEN template_decode(T, <<input>>)
    ELSE PyNone

\* ----------------------------------------------------------------- units
\* A value of units.py: type is the Python type (or the exception raised),
\* value the number of an int, float or dFloat, units the {unit: power}
\* items of a dict, of a unitDictionary or of the units of a dFloat.
UValue(type, value, units) == [type |-> type, value |-> value, units |-> units]
EmptyItems == [u \in {} |-> 0]
NoValue == UValue("none", 0, EmptyItems)
RaiseU(exc) == UValue(exc, 0, EmptyItems)

\* the unit objects used as keys: units.m, units.s
Units == {"m", "s"}
Powers == (0 - MaxPower)..MaxPower

\* dict.update({k: v}) and dict.pop(k) on the items of a dictionary
Update(items, k, v) ==
    [u \in (DOMAIN items) \cup {k} |-> IF u = k THEN v ELSE items[u]]
Pop(items, k) == [u \in (DOMAIN items) \ {k} |-> items[u]]

\* unitDictionary(inputDictionary)
unitDictionary(inputDictionary) ==
    UValue("unitDictionary", 0, inputDictionary.units)
\* a plain dict {unit: power, ...}
dict(items) == UValue("dict", 0, items)
\* copy.copy(self)
copy(self) == UValue(self.type, self.value, self.units)

IsDictionary(v) == v.type = "unitDictionary" \/ v.type = "dict"

\* the for loop of unitDictionary.__mul__ (sign = 1) and __div__ (sign = -1)
\* over the keys of inputUnitDict that are still to be visited
RECURSIVE mixUnits(_, _, _, _)
mixUnits(outputItems, inputItems, keys, sign) ==
    IF keys = {} THEN outputItems
    ELSE LET thisUnit == CHOOSE u \in keys : TRUE
             mixed ==
                 IF thisUnit \in DOMAIN outputItems
                 THEN LET power == outputItems[thisUnit]
                                       + sign * inputItems[thisUnit]
                      IN  IF power = 0 THEN Pop(outputItems, thisUnit)
                          ELSE Update(outputItems, thisUnit, power)
                 ELSE Update(outputItems, thisUnit, sign * inputItems[thisUnit])
         IN  mixUnits(mixed, inputItems, keys \ {thisUnit}, sign)

\* unitDictionary.__mul__
unitDictionary_mul(self, inputUnitDict) ==
    LET outputUnitDict == copy(self)
    IN  IF IsDictionary(inputUnitDict)
        THEN UValue(outputUnitDict.type, 0,
                    mixUnits(outputUnitDict.units, inputUnitDict.units,
                             DOMAIN inputUnitDict.units, 1))
        ELSE RaiseU("UnitError")

\* unitDictionary.__div__: an input that is not a dictionary is passed over
unitDictionary_div(self, inputUnitDict) ==
    LET outputUnitDict == copy(self)
    IN  IF IsDictionary(inputUnitDict)
        THEN UValue(outputUnitDict.type, 0,
                    mixUnits(outputUnitDict.units, inputUnitDict.units,
                             DOMAIN inputUnitDict.units, 0 - 1))
        ELSE outputUnitDict

\* dFloat(value, units): a float that carries unitDictionary(units)
dFloat(value, units) == UValue("dFloat", value, units)
\* a plain Python number
number(type, value) == UValue(type, value, EmptyItems)

UnitErrorKinds == {"UnitError", "NameError", "TypeError"}
IsRaised(v) == v.type \in UnitErrorKinds
IsNumber(v) == v.type \in {"int", "float", "dFloat"}

\* float(x): the number of an int, float or dFloat, TypeError for a dictionary
float(x) == IF IsNumber(x) THEN number("float", x.value) ELSE RaiseU("TypeError")

\* the names bound at module level in units.py
moduleGlobals ==
    {"errors", "math", "copy", "unit", "unitDictionary", "dFloat",
     "getBaseUnits", "reduceToBaseUnits", "checkForEquivalentUnits",
     "convertToUnits", "m", "cm", "mm", "inch", "ft", "yd", "rad", "deg",
     "rev", "s", "min", "hr", "kg", "g", "oz", "lb", "N", "kgf", "gf",
     "ozf", "lbf"}

\* the call unitDict(self.units) in the dFloat methods: the name is looked
\* up among the module globals when the method runs
unitDict(units) ==
    IF "unitDict" \in moduleGlobals THEN UValue("unitDictionary", 0, units)
    ELSE RaiseU("NameError")

\* the body shared by dFloat.__add__ (sign = 1) and dFloat.__sub__ (sign = -1)
dFloat_addsub(self, other, sign) ==
    LET addend == float(other)
        units == unitDict(self.units)
    IN  IF IsRaised(addend) THEN addend
        ELSE IF IsRaised(units) THEN units
        ELSE IF other.type = "dFloat" /\ self.units # other.units
             THEN RaiseU("UnitError")
        ELSE dFloat(self.value + sign * addend.value, units.units)

\* dFloat.__add__
dFloat_add(self, other) == dFloat_addsub(self, other, 1)
\* dFloat.__sub__
dFloat_sub(self, other) == dFloat_addsub(self, other, 0 - 1)

\* dFloat.__radd__: other + self for a left operand that is not a dFloat
dFloat_radd(self, other) ==
    LET addend == float(other)
        units == unitDict(self.units)
    IN  IF IsRaised(addend) THEN addend
        ELSE IF IsRaised(units) THEN units
        ELSE dFloat(self.value + addend.value, units.units)

\* the {unit: power} dictionaries the expressions are built from
UnitItems == UNION {[present -> Powers] : present \in SUBSET Units}
UnitDictionaries == {unitDictionary(dict(items)) : items \in UnitItems}
DFloats == {dFloat(1, items) : items \in UnitItems}
LeftOperands == UnitDictionaries \cup DFloats \cup {number("int", 2)}
RightOperands ==
    UnitDictionaries \cup {dict(items) : items \in UnitItems}
        \cup DFloats \cup {number("int", 2)}

\* ------------------------------------------------------ inputs and state
\* the gestaltPacket template of devtests.py lines 23-29
frameTokens ==
    <<unsignedInt("start", 1), unsignedInt("addr", 2), unsignedInt("port", 1),
      length("len", 1, FALSE), packet("payload"), checksum("crc", 7)>>

childTemplate ==
    template_init(<<StrArg("child"), unsignedInt("addr", 2),
                    length("len", 1, TRUE), pString("url"),
                    checksum("sum", 7)>>)

\* a child template that holds a list token
listChild == template_init(<<StrArg("list"), pList("p")>>)

\* the argument lists given to template(...)
TemplateArgs ==
    { <<StrArg("frame")>> \o frameTokens,
      <<unsignedInt("addr", 2), length("len", 1, TRUE), packet("payload"),
        checksum("crc", 7)>>,
      <<StrArg("dup"), checksum("crc", 7), unsignedInt("start", 1),
        unsignedInt("addr", 2), unsignedInt("port", 1),
        length("len", 1, FALSE), length("len2", 1, TRUE), pList("payload")>>,
      <<StrArg("outer"), unsignedInt("port", 1), length("len", 1, FALSE),
        packetTemplate("inner", childTemplate), checksum("crc", 7)>>,
      <<StrArg("wrap"), pList("payload"), packetTemplate("inner", listChild)>>,
      <<>> }

payload(n) == PyList([i \in 1..n |-> PyInt(i)])
\* the payload bytes of the recorded packet: what stands between its length
\* byte and its checksum byte
recordedPayload == SubSeq(recordedPacket, 6, Len(recordedPacket) - 1)
\* a payload that, with the four bytes of start, addr and port, makes
\* MaxElements byte elements: the recorded payload, repeated where more
\* bytes are asked for than it has
longPayload ==
    PyList([i \in 1..(MaxElements - 4) |->
               PyInt(recordedPayload[((i - 1) % Len(recordedPayload)) + 1])])

frameDict(addr, payloadValue) ==
    PyDict(<<Item("start", PyInt(72)), Item("addr", PyInt(addr)),
             Item("port", PyInt(72)), Item("payload", payloadValue)>>)

\* the dictionaries given to encode
Dicts ==
    { frameDict(1, payload(3)), frameDict(1, longPayload) }
    \cup { frameDict(a, payload(3)) : a \in {65536, -1} }
    \cup { PyDict(<<Item("start", PyInt(72)), Item("port", PyInt(72)),
                    Item("payload", payload(3))>>),
           PyDict(<<Item("start", PyInt(72)), Item("addr", PyInt(65536)),
                    Item("payload", payload(3))>>),
           PyDict(<<Item("port", PyInt(72)),
                    Item("inner", PyDict(<<Item("addr", PyInt(1025)),
                                           Item("url", PyStr(<<"a", "b">>))>>))>>) }

\* a dictionary with further items
With(d, items) == PyDict(d.l \o items)

\* a packet returned by an earlier encode, to be embedded
embeddedBytes == serializedPacket(payload(3).l, childTemplate)

\* the dictionaries a single caller gives to encode: those above, the frame
\* example with values stored under the keys of the Length and Checksum
\* tokens, with a payload that holds a str and a nested list, and with a
\* payload that is an encoded packet, and with a list that holds 300 for
\* the list token of a child template
CodecDicts ==
    Dicts
    \cup { With(frameDict(1, payload(3)), <<Item("len", PyInt(200)), Item("len2", PyInt(1)),
                                  Item("crc", PyInt(0))>>),
           PyDict(<<Item("start", PyInt(72)), Item("addr", PyInt(1)),
                    Item("port", PyInt(72)),
                    Item("payload", PyList(<<PyInt(1), PyStr(<<"a">>),
                                             PyList(<<PyInt(2), PyInt(3)>>)>>))>>),
           PyDict(<<Item("start", PyInt(72)), Item("addr", PyInt(1)),
                    Item("port", PyInt(72)), Item("payload", embeddedBytes)>>),
           PyDict(<<Item("port", PyInt(72)), Item("len", PyInt(0)),
                    Item("inner", PyDict(<<Item("addr", PyInt(1025)),
                                           Item("url", PyStr(<<"a", "b">>)),
                                           Item("sum", PyInt(255))>>))>>),
           PyDict(<<Item("payload", PyList(<<PyInt(1), PyStr(<<"a">>),
                                             PyList(<<PyInt(2), PyInt(3)>>)>>)),
                    Item("inner",
                         PyDict(<<Item("p", PyList(<<PyInt(300),
                                                     PyList(<<PyInt(7)>>)>>))>>))>>) }

\* the keys looked up with findTokenPosition
LookupKeys == {"port", "payload", "nokey"}

VARIABLES
    tmpl,            \* <<>> before construction, then <<the template object>>
    ctor,            \* outcome of template(...): "none", "ok" or "IndexError"
    defaultArg,      \* the list that is the default of packetToken.encode
    pc,              \* position of each caller
    inputDict,       \* the dictionary each caller passed to encode
    inProcessPacket, \* the local inProcessPacket of each running encode
    result,          \* what encode returned or raised to each caller
    decoded,         \* what decode returned or raised to each caller
    corrupted,       \* whether the caller flipped a bit before decoding
    called,          \* the method of the template each caller invoked
    passed           \* the argument given to decode, findTokenPosition
                     \* or __call__, PyNone otherwise

\* units.py: one expression evaluated on unit dictionaries or dFloat numbers
VARIABLES
    op,              \* the method the expression calls, "none" before it
    lhs,             \* self, as it is after the call
    rhs,             \* the other operand, as it is after the call
    outcome          \* what the method returned or raised

packetVars == <<tmpl, ctor, defaultArg, pc, inputDict, inProcessPacket, result,
                decoded, corrupted, called, passed>>
unitVars == <<op, lhs, rhs, outcome>>
vars == <<packetVars, unitVars>>

Init ==
    /\ tmpl = <<>>
    /\ ctor = "none"
    /\ defaultArg = <<>>
    /\ pc = [c \in Callers |-> "idle"]
    /\ inputDict = [c \in Callers |-> PyNone]
    /\ inProcessPacket = [c \in Callers |-> <<>>]
    /\ result = [c \in Callers |-> PyNone]
    /\ decoded = [c \in Callers |-> PyNone]
    /\ corrupted = [c \in Callers |-> FALSE]
    /\ called = [c \in Callers |-> "none"]
    /\ passed = [c \in Callers |-> PyNone]
    /\ op = "none"
    /\ lhs = NoValue
    /\ rhs = NoValue
    /\ outcome = NoValue

\* template(*packetTokens)
Construct(packetTokens) ==
    /\ ctor = "none"
    /\ LET T == template_init(packetTokens)
       IN  IF T.ok
           THEN tmpl' = <<T>> /\ ctor' = "ok"
           ELSE tmpl' = <<>> /\ ctor' = "IndexError"
    /\ UNCHANGED <<defaultArg, pc, inputDict, inProcessPacket, result,
                   decoded, corrupted, called, passed>>
    /\ UNCHANGED unitVars

\* a caller enters template.encode(inputDict)
CallEncode(c, d) ==
    /\ ctor = "ok"
    /\ pc[c] = "idle"
    /\ pc' = [pc EXCEPT ![c] = "pass1"]
    /\ inputDict' = [inputDict EXCEPT ![c] = d]
    /\ called' = [called EXCEPT ![c] = "encode"]
    /\ UNCHANGED <<tmpl, ctor, defaultArg, inProcessPacket, result, decoded,
                   corrupted, passed>>
    /\ UNCHANGED unitVars

StepOf(p) == CASE p = "pass1" -> 1 [] p = "pass2" -> 2 [] p = "pass3" -> 3
NextPc(p) == CASE p = "pass1" -> "pass2" [] p = "pass2" -> "pass3"
               [] p = "pass3" -> "return"

\* variant: the results of a pass appended to the list that was passed in
defaultAfterPass_appended(default, new) == default \o new

\* the default list after a pass: no _encode_ writes to inProcessPacket
defaultAfterPass(default, new) == default

\* variant: the value taken out of the dictionary by the token that reads it
encodeDictAfterPass_popped(kind, T, encodeDict) ==
    PyDict(SelectSeq(encodeDict.l,
                     LAMBDA item :
                         ~\E i \in 1..Len(T.template) :
                             /\ T.template[i].keyName = item.key
                             /\ (kind = "value" \/ T.template[i].type = kind)))

\* the caller's dictionary after a pass: packetToken.encode reads
\* encodeDict[self.keyName] and no _encode_ writes to encodeDict
encodeDictAfterPass(kind, T, encodeDict) == encodeDict

\* one of the three statements of template.encode, run by caller c
Pass(c, kind) ==
    /\ pc[c] \in {"pass1", "pass2", "pass3"}
    /\ PassOrder[StepOf(pc[c])] = kind
    /\ LET r == ApplyPass(kind, tmpl[1], inputDict[c], inProcessPacket[c],
                          defaultArg)
       IN  IF IsError(r)
           THEN /\ result' = [result EXCEPT ![c] = r]
                /\ pc' = [pc EXCEPT ![c] = "done"]
                /\ UNCHANGED <<inProcessPacket, defaultArg>>
           ELSE /\ inProcessPacket' = [inProcessPacket EXCEPT ![c] = r.l]
                /\ pc' = [pc EXCEPT ![c] = NextPc(pc[c])]
                /\ defaultArg' = defaultAfterPass(defaultArg, r.l)
                /\ UNCHANGED result
    /\ inputDict' = [inputDict EXCEPT ![c] =
                         encodeDictAfterPass(kind, tmpl[1], inputDict[c])]
    /\ UNCHANGED <<tmpl, ctor, decoded, corrupted, called, passed>>
    /\ UNCHANGED unitVars

ValuePass(c) == Pass(c, "value")
LengthPass(c) == Pass(c, "length")
ChecksumPass(c) == Pass(c, "checksum")

\* return serializedPacket(inProcessPacket, self)
Return(c) ==
    /\ pc[c] = "return"
    /\ result' = [result EXCEPT ![c] = serializedPacket(inProcessPacket[c], tmpl[1])]
    /\ pc' = [pc EXCEPT ![c] = "done"]
    /\ UNCHANGED <<tmpl, ctor, defaultArg, inputDict, inProcessPacket, decoded,
                   corrupted, called, passed>>
    /\ UNCHANGED unitVars

\* bit b of byte i of a packet inverted
FlipBit(bytes, i, b) ==
    LET w == IF b = 0 THEN 1 ELSE IF b = 1 THEN 2 ELSE IF b = 2 THEN 4
             ELSE IF b = 3 THEN 8 ELSE IF b = 4 THEN 16 ELSE IF b = 5 THEN 32
             ELSE IF b = 6 THEN 64 ELSE 128
    IN  [bytes EXCEPT ![i] = PyInt(Xor(bytes[i].n, w))]

\* a caller passes the packet it got from encode, as it is (i = 0) or with
\* one bit flipped, to template.decode
Decode(c, i, b) ==
    /\ pc[c] = "done"
    /\ result[c].k = "serializedPacket"
    /\ i \in 0..Len(result[c].l)
    /\ LET sent == IF i = 0 THEN result[c].l ELSE FlipBit(result[c].l, i, b)
       IN  decoded' = [decoded EXCEPT ![c] = template_decode(tmpl[1], <<PyList(sent)>>)]
    /\ corrupted' = [corrupted EXCEPT ![c] = (i # 0)]
    /\ pc' = [pc EXCEPT ![c] = "decoded"]
    /\ called' = [called EXCEPT ![c] = "decode"]
    /\ UNCHANGED <<tmpl, ctor, defaultArg, inputDict, inProcessPacket, result,
                   passed>>
    /\ UNCHANGED unitVars

\* the caller drops what it holds and may call again
Finish(c) ==
    /\ pc[c] \in {"done", "decoded"}
    /\ pc' = [pc EXCEPT ![c] = "idle"]
    /\ inputDict' = [inputDict EXCEPT ![c] = PyNone]
    /\ inProcessPacket' = [inProcessPacket EXCEPT ![c] = <<>>]
    /\ result' = [result EXCEPT ![c] = PyNone]
    /\ decoded' = [decoded EXCEPT ![c] = PyNone]
    /\ corrupted' = [corrupted EXCEPT ![c] = FALSE]
    /\ called' = [called EXCEPT ![c] = "none"]
    /\ passed' = [passed EXCEPT ![c] = PyNone]
    /\ UNCHANGED <<tmpl, ctor, defaultArg>>
    /\ UNCHANGED unitVars

\* what a caller does to the packet it holds before it hands it to decode:
\* nothing, flip bit b of byte i, keep the first i bytes, or add one byte
Tamperings ==
    {<<"asis", 0, 0>>, <<"extend", 0, 0>>}
    \cup { <<"flip", i, b>> : i \in 1..(MaxElements + 4), b \in FlipBits }
    \cup { <<"cut", i, 0>> : i \in 0..(MaxElements + 3) }

Tamper(bytes, how) ==
    CASE how[1] = "asis" -> bytes
      [] how[1] = "extend" -> bytes \o <<PyInt(0)>>
      [] how[1] = "flip" -> FlipBit(bytes, how[2], how[3])
      [] how[1] = "cut" -> SubSeq(bytes, 1, how[2])

\* template.decode(data) for a list made of the packet the caller holds
DecodeBytes(c, how) ==
    /\ pc[c] = "done"
    /\ result[c].k = "serializedPacket"
    /\ how[1] = "flip" => how[2] <= Len(result[c].l)
    /\ how[1] = "cut" => how[2] < Len(result[c].l)
    /\ LET data == PyList(Tamper(result[c].l, how))
       IN  /\ decoded' = [decoded EXCEPT ![c] = template_decode(tmpl[1], <<data>>)]
           /\ corrupted' = [corrupted EXCEPT ![c] = (data.l # result[c].l)]
           /\ passed' = [passed EXCEPT ![c] = data]
    /\ called' = [called EXCEPT ![c] = "decode"]
    /\ pc' = [pc EXCEPT ![c] = "decoded"]
    /\ UNCHANGED <<tmpl, ctor, defaultArg, inputDict, inProcessPacket, result>>
    /\ UNCHANGED unitVars

\* template.findTokenPosition(keyName, packet) for the packet the caller holds
FindTokenPosition(c, keyName) ==
    /\ pc[c] = "done"
    /\ result[c].k = "serializedPacket"
    /\ decoded' = [decoded EXCEPT ![c] =
                       template_findTokenPosition(tmpl[1], keyName, result[c])]
    /\ called' = [called EXCEPT ![c] = "findTokenPosition"]
    /\ passed' = [passed EXCEPT ![c] = Lit(keyName)]
    /\ pc' = [pc EXCEPT ![c] = "decoded"]
    /\ UNCHANGED <<tmpl, ctor, defaultArg, inputDict, inProcessPacket, result,
                   corrupted>>
    /\ UNCHANGED unitVars

\* what a caller that holds a packet calls the template with: the packet, a
\* plain list of its bytes, or a packet token object
HeldForms == {"serializedPacket", "list", "packet"}
Held(c, form) ==
    CASE form = "serializedPacket" -> result[c]
      [] form = "list" -> PyList(result[c].l)
      [] form = "packet" -> Self(packet("payload"))

\* template.__call__(input): a dict enters template.encode, whose statements
\* then run as for CallEncode; any other input is answered at once
Call(c, input) ==
    /\ ctor = "ok"
    /\ IF input.k = "dict" THEN pc[c] = "idle"
       ELSE pc[c] = "done" /\ result[c].k = "serializedPacket"
    /\ called' = [called EXCEPT ![c] = "__call__"]
    /\ passed' = [passed EXCEPT ![c] = input]
    /\ IF callDispatch(input) = "encode"
       THEN /\ pc' = [pc EXCEPT ![c] = "pass1"]
            /\ inputDict' = [inputDict EXCEPT ![c] = input]
            /\ UNCHANGED decoded
       ELSE /\ pc' = [pc EXCEPT ![c] = "decoded"]
            /\ decoded' = [decoded EXCEPT ![c] = template_call(tmpl[1], input)]
            /\ UNCHANGED inputDict
    /\ UNCHANGED <<tmpl, ctor, defaultArg, inProcessPacket, result, corrupted>>
    /\ UNCHANGED unitVars

Next ==
    \/ \E a \in TemplateArgs : Construct(a)
    \/ \E c \in Callers, d \in Dicts : CallEncode(c, d)
    \/ \E c \in Callers : ValuePass(c)
    \/ \E c \in Callers : LengthPass(c)
    \/ \E c \in Callers : ChecksumPass(c)
    \/ \E c \in Callers : Return(c)
    \/ \E c \in Callers, i \in 0..(MaxElements + 4), b \in FlipBits : Decode(c, i, b)
    \/ \E c \in Callers : Finish(c)

Spec == Init /\ [][Next]_vars

\* one caller using every operation of a template, one call after the other
\* ------------------------------------------------------- units.py actions
\* the operands of the next expression are built
Operands(left, right) ==
    /\ op = "none"
    /\ lhs = NoValue
    /\ op' = "none"
    /\ lhs' = left
    /\ rhs' = right
    /\ outcome' = NoValue
    /\ UNCHANGED packetVars

\* lhs * rhs, lhs a unitDictionary
Multiply ==
    /\ op = "none"
    /\ lhs.type = "unitDictionary"
    /\ op' = "mul"
    /\ outcome' = unitDictionary_mul(lhs, rhs)
    /\ UNCHANGED <<lhs, rhs>>
    /\ UNCHANGED packetVars

\* lhs / rhs, lhs a unitDictionary
Divide ==
    /\ op = "none"
    /\ lhs.type = "unitDictionary"
    /\ op' = "div"
    /\ outcome' = unitDictionary_div(lhs, rhs)
    /\ UNCHANGED <<lhs, rhs>>
    /\ UNCHANGED packetVars

\* lhs + rhs, lhs a dFloat
Add ==
    /\ op = "none"
    /\ lhs.type = "dFloat"
    /\ op' = "add"
    /\ outcome' = dFloat_add(lhs, rhs)
    /\ UNCHANGED <<lhs, rhs>>
    /\ UNCHANGED packetVars

\* lhs - rhs, lhs a dFloat
Subtract ==
    /\ op = "none"
    /\ lhs.type = "dFloat"
    /\ op' = "sub"
    /\ outcome' = dFloat_sub(lhs, rhs)
    /\ UNCHANGED <<lhs, rhs>>
    /\ UNCHANGED packetVars

\* lhs + rhs, lhs a plain number and rhs a dFloat: Python calls rhs.__radd__
RightAdd ==
    /\ op = "none"
    /\ lhs.type \in {"int", "float"}
    /\ rhs.type = "dFloat"
    /\ op' = "radd"
    /\ outcome' = dFloat_radd(rhs, lhs)
    /\ UNCHANGED <<lhs, rhs>>
    /\ UNCHANGED packetVars

\* the expression's values go out of scope before the next one is written
Discard ==
    /\ op # "none"
    /\ op' = "none"
    /\ lhs' = NoValue
    /\ rhs' = NoValue
    /\ outcome' = NoValue
    /\ UNCHANGED packetVars

NextUnits ==
    \/ \E left \in LeftOperands, right \in RightOperands :
           Operands(left, right)
    \/ Multiply
    \/ Divide
    \/ Add
    \/ Subtract
    \/ RightAdd
    \/ Discard

SpecUnits == Init /\ [][NextUnits]_vars

CodecCallers == {1}

NextCodec ==
    \/ \E a \in TemplateArgs : Construct(a)
    \/ \E c \in CodecCallers, d \in CodecDicts : CallEncode(c, d)
    \/ \E c \in CodecCallers : ValuePass(c)
    \/ \E c \in CodecCallers : LengthPass(c)
    \/ \E c \in CodecCallers : ChecksumPass(c)
    \/ \E c \in CodecCallers : Return(c)
    \/ \E c \in CodecCallers, how \in Tamperings : DecodeBytes(c, how)
    \/ \E c \in CodecCallers, key \in LookupKeys : FindTokenPosition(c, key)
    \/ \E c \in CodecCallers, d \in CodecDicts : Call(c, d)
    \/ \E c \in CodecCallers, form \in HeldForms : Call(c, Held(c, form))
    \/ \E c \in CodecCallers : Finish(c)

SpecCodec == Init /\ [][NextCodec]_vars

\* ---------------------------------------------------------------- claims
Constructed == ctor = "ok"
Tokens == tmpl[1].template
Returned(c) == pc[c] \in {"done", "decoded"} /\ result[c].k = "serializedPacket"
BytesOf(v) == [i \in 1..Len(v.l) |-> v.l[i].n]
Ints(ns) == [i \in 1..Len(ns) |-> PyInt(ns[i])]
TokenIndexes(type) == {i \in 1..Len(Tokens) : Tokens[i].type = type}

RECURSIVE SumOver(_, _)
SumOver(f, S) ==
    IF S = {} THEN 0
    ELSE LET x == CHOOSE y \in S : TRUE IN f[x] + SumOver(f, S \ {x})

FrameTemplate == template_init(<<StrArg("frame")>> \o frameTokens)
FrameExample == frameDict(1, payload(3))
EncodedFrameExample(c) ==
    /\ Constructed /\ tmpl[1] = FrameTemplate
    /\ pc[c] \in {"done", "decoded"}
    /\ inputDict[c] = FrameExample

\* C1 (as amended): encoding {start:72, addr:1, port:72, payload:[1,2,3]}
\* with the "frame" template yields exactly [72,1,0,72,7,1,2,3,crc]: addr is
\* least significant byte first, the length byte is 7, the count of all
\* integer bytes of the in-process packet (four of start, addr and port and
\* three of payload), and crc is the CRC-8 (polynomial 7) of the eight bytes
\* before it.
C1_FrameExampleEncoding ==
    \A c \in Callers :
        EncodedFrameExample(c) =>
            /\ result[c].k = "serializedPacket"
            /\ BytesOf(result[c]) =
                   <<72, 1, 0, 72, 7, 1, 2, 3>>
                   \o <<CRC_generate(7, Ints(<<72, 1, 0, 72, 7, 1, 2, 3>>)).n>>

C1_Witness ==
    \E c \in Callers :
        EncodedFrameExample(c) /\ Len(result[c].l) = 9 /\ result[c].l[5].n = 7

\* C1 as first stated: the same call yields [72,0,1,72,3,1,2,3,crc] with
\* length byte 3 and crc the CRC-8 of [72,0,1,72,3,1,2,3].
C1_Original ==
    \A c \in Callers :
        EncodedFrameExample(c) =>
            /\ result[c].k = "serializedPacket"
            /\ BytesOf(result[c]) =
                   <<72, 0, 1, 72, 3, 1, 2, 3>>
                   \o <<CRC_generate(7, Ints(<<72, 0, 1, 72, 3, 1, 2, 3>>)).n>>

ValueConsuming(tok) == tok.requireEncodeDict

\* C2: after encode and decode of the unchanged packet, the decoded mapping
\* holds, under the key of every value-consuming token, the value of the
\* encoded mapping.
C2_RoundTrip ==
    \A c \in Callers :
        (pc[c] = "decoded" /\ ~corrupted[c]) =>
            /\ decoded[c].k = "dict"
            /\ \A i \in 1..Len(Tokens) :
                   ValueConsuming(Tokens[i]) =>
                       /\ HasKey(decoded[c], Tokens[i].keyName)
                       /\ GetItem(decoded[c], Tokens[i].keyName)
                              = GetItem(inputDict[c], Tokens[i].keyName)

\* the bytes the Length and Checksum tokens contribute to a finished packet
LengthBytes == SumOver([i \in 1..Len(Tokens) |-> Tokens[i].size],
                       TokenIndexes("length"))
ChecksumBytes == Cardinality(TokenIndexes("checksum"))
\* the byte elements of a finished in-process packet that are data
DataCount(c) ==
    Len(flattenList(inProcessPacket[c])) - LengthBytes - ChecksumBytes

\* the elements of a finished in-process packet that the payload tokens
\* (EmbeddedPacket, PList) hold
PayloadCount(c) ==
    Len(flattenList([i \in 1..Len(Tokens) |->
                        IF Tokens[i].type \in {"packet", "pList"}
                        THEN inProcessPacket[c][i] ELSE PyList(<<>>)]))

\* C3 (as amended): a Length token of size 1 encodes the number of integer
\* elements that all the other tokens of the template hold in the in-process
\* packet, the header fields before it included and the Length and Checksum
\* slots left out: n such elements give the byte n without countSelf and
\* n + 1 with countSelf.
C3_LengthCountsElements ==
    \A c \in Callers :
        pc[c] = "return" =>
            \A i \in TokenIndexes("length") :
                Tokens[i].size = 1 =>
                    inProcessPacket[c][i] =
                        PyList(<<PyInt(IF Tokens[i].countSelf
                                       THEN DataCount(c) + 1
                                       ELSE DataCount(c))>>)

\* the gestaltPacket template has encoded the long payload: its one Length
\* token holds MaxElements, four more than the payload has elements
C3_Witness ==
    \E c \in Callers :
        /\ Constructed /\ pc[c] = "return"
        /\ tmpl[1] = FrameTemplate
        /\ Cardinality(TokenIndexes("length")) = 1
        /\ PayloadCount(c) = MaxElements - 4
        /\ DataCount(c) = MaxElements
        /\ \E i \in TokenIndexes("length") :
               /\ Tokens[i].size = 1 /\ ~Tokens[i].countSelf
               /\ inProcessPacket[c][i] = PyList(<<PyInt(MaxElements)>>)

\* C3 as first stated: the Length token of size 1 encodes the number of
\* elements of the payload, n without countSelf and n + 1 with countSelf.
C3_Original ==
    \A c \in Callers :
        pc[c] = "return" =>
            \A i \in TokenIndexes("length") :
                Tokens[i].size = 1 =>
                    inProcessPacket[c][i] =
                        PyList(<<PyInt(IF Tokens[i].countSelf
                                       THEN PayloadCount(c) + 1
                                       ELSE PayloadCount(c))>>)

\* the template without its Checksum tokens
WithoutChecksum(T) ==
    [T EXCEPT !.template = SelectSeq(T.template, LAMBDA t : t.type # "checksum")]
\* the entries of an in-process packet at the Length tokens of T, in order
LengthValues(T, packetInProcess) ==
    LET idx == SelectSeq([i \in 1..Len(T.template) |-> i],
                         LAMBDA i : T.template[i].type = "length")
    IN  [k \in 1..Len(idx) |-> packetInProcess[idx[k]]]
\* the in-process packet of T after the value and the length statement
AfterLength(T, d) ==
    ApplyPass("length", T, d, ApplyPass("value", T, d, <<>>, <<>>).l, <<>>).l

\* C4: the value a Length token encodes is the same whether or not the
\* template also contains a Checksum token: the Checksum slot, unresolved
\* in the length pass, is not counted.
C4_LengthIgnoresChecksumSlot ==
    \A c \in Callers :
        pc[c] = "return" =>
            LengthValues(tmpl[1], inProcessPacket[c])
                = LengthValues(WithoutChecksum(tmpl[1]),
                               AfterLength(WithoutChecksum(tmpl[1]), inputDict[c]))

C4_Witness ==
    \E c \in Callers :
        /\ Constructed /\ pc[c] = "return"
        /\ TokenIndexes("checksum") # {}
        /\ TokenIndexes("length") # {}
        /\ LengthValues(tmpl[1], inProcessPacket[c])[1].k = "list"

RemoveAt(s, i) == SubSeq(s, 1, i - 1) \o SubSeq(s, i + 1, Len(s))

\* C5: in a returned packet of a template with one Checksum token, the
\* checksum byte is the CRC of all other bytes of the final packet, the
\* finalized length bytes included.
C5_ChecksumCoversFinalPacket ==
    \A c \in Callers :
        (pc[c] = "done" /\ result[c].k = "serializedPacket") =>
            \A i \in TokenIndexes("checksum") :
                Cardinality(TokenIndexes("checksum")) = 1 =>
                    LET pos == Len(flattenList(SubSeq(inProcessPacket[c], 1, i - 1))) + 1
                    IN  result[c].l[pos] =
                            CRC_generate(Tokens[i].CRCInstance,
                                         RemoveAt(result[c].l, pos))

C5_Witness ==
    \E c \in Callers :
        /\ Constructed /\ pc[c] = "done" /\ result[c].k = "serializedPacket"
        /\ \E i \in TokenIndexes("checksum"), j \in TokenIndexes("length") :
               /\ i < j
               /\ result[c].l[1] =
                      CRC_generate(Tokens[i].CRCInstance, Tail(result[c].l))

\* C6: encode calls of several callers on the shared template, their
\* statements interleaved in any order, each return what the call returns
\* when run alone with a fresh default list, and nothing is left in the
\* shared default list of packetToken.encode.
C6_InterleavedEncodeAsAlone ==
    /\ defaultArg = <<>>
    /\ \A c \in Callers :
           /\ pc[c] = "done" =>
                  result[c] = template_encode(tmpl[1], inputDict[c], <<>>)
           /\ pc[c] = "return" =>
                  serializedPacket(inProcessPacket[c], tmpl[1])
                      = template_encode(tmpl[1], inputDict[c], <<>>)

C6_Witness ==
    \E c1, c2 \in Callers :
        /\ c1 # c2 /\ Constructed
        /\ pc[c1] = "return" /\ pc[c2] = "pass3"
        /\ inputDict[c1] # inputDict[c2]
        /\ inProcessPacket[c1] # inProcessPacket[c2]

\* a token that cannot be encoded from the mapping: its key is missing, or
\* it is an unsignedInt whose value does not fit its size
MissingKey(tok, d) == ValueConsuming(tok) /\ ~HasKey(d, tok.keyName)
OutOfRange(tok, d) ==
    /\ tok.type = "unsignedInt" /\ HasKey(d, tok.keyName)
    /\ LET v == GetItem(d, tok.keyName).n
       IN  v < 0 \/ v >= 2 ^ (8 * tok.size)
Failing(tok, d) == MissingKey(tok, d) \/ OutOfRange(tok, d)
\* the first token of the template, in template order, that fails
FirstFailing(d) ==
    CHOOSE i \in 1..Len(Tokens) :
        Failing(Tokens[i], d) /\ \A j \in 1..(i - 1) : ~Failing(Tokens[j], d)
SomeFailing(d) == \E i \in 1..Len(Tokens) : Failing(Tokens[i], d)
MessageOf(v) == [i \in 1..Len(v.l) |-> v.l[i].key]
InMessage(v, word) == \E i \in 1..Len(v.l) : v.l[i].key = word

\* C7 (as amended): encoding a mapping that lacks the keyName of a
\* value-consuming token returns no packet but raises an exception; when the
\* token with the missing key is the first token of the template that fails,
\* the exception is a KeyError whose message names the key, and names the
\* template when the template was given a name (for a nameless template it
\* is "<key> not found in template."); a KeyError is never raised for the
\* key of a Length or Checksum token.
C7_MissingKeyRaisesKeyError ==
    \A c \in Callers :
        pc[c] = "done" =>
            /\ (\E i \in 1..Len(Tokens) : MissingKey(Tokens[i], inputDict[c]))
                   => IsError(result[c])
            /\ (SomeFailing(inputDict[c])
                /\ MissingKey(Tokens[FirstFailing(inputDict[c])], inputDict[c]))
                   => /\ result[c].k = "KeyError"
                      /\ MessageOf(result[c]) =
                           IF tmpl[1].name.isNone
                           THEN <<Tokens[FirstFailing(inputDict[c])].keyName,
                                  " not found in template.">>
                           ELSE <<Tokens[FirstFailing(inputDict[c])].keyName,
                                  " not found in template ", tmpl[1].name.s, ".">>
            /\ result[c].k = "KeyError"
                   => \E i \in 1..Len(Tokens) :
                          /\ ValueConsuming(Tokens[i])
                          /\ Tokens[i].type \notin {"length", "checksum"}
                          /\ result[c].l[1].key = Tokens[i].keyName
                          /\ ~HasKey(inputDict[c], Tokens[i].keyName)

C7_Witness ==
    \E c1, c2 \in Callers :
        /\ Constructed /\ tmpl[1].name.isNone
        /\ pc[c1] = "done" /\ result[c1].k = "KeyError"
        /\ pc[c2] = "done" /\ result[c2].k = "serializedPacket"
        /\ ~HasKey(inputDict[c2], "len") /\ ~HasKey(inputDict[c2], "crc")

\* C7 as first stated: the encode of a mapping that lacks the keyName of a
\* value-consuming token fails with a missing-field error that names the key
\* and the enclosing template.
C7_Original ==
    \A c \in Callers :
        (pc[c] = "done"
         /\ \E i \in 1..Len(Tokens) : MissingKey(Tokens[i], inputDict[c])) =>
            /\ result[c].k = "KeyError"
            /\ \E i \in 1..Len(Tokens) :
                   /\ MissingKey(Tokens[i], inputDict[c])
                   /\ InMessage(result[c], Tokens[i].keyName)
            /\ ~tmpl[1].name.isNone
            /\ InMessage(result[c], tmpl[1].name.s)

\* the number a list of byte values stands for, first byte least significant
LittleEndian(bytes) ==
    SumOver([k \in 1..Len(bytes) |-> bytes[k].n * (256 ^ (k - 1))], 1..Len(bytes))
\* the number a list of byte values stands for, first byte most significant
BigEndian(bytes) ==
    SumOver([k \in 1..Len(bytes) |-> bytes[k].n * (256 ^ (Len(bytes) - k))],
            1..Len(bytes))
ValuePassDone(c) == pc[c] \in {"pass2", "pass3", "return"}
IsBytes(v, size) ==
    /\ v.k = "list" /\ Len(v.l) = size
    /\ \A k \in 1..size : v.l[k].k = "int" /\ v.l[k].n \in 0..255
InRange(tok, d) ==
    /\ HasKey(d, tok.keyName)
    /\ GetItem(d, tok.keyName).k = "int"
    /\ GetItem(d, tok.keyName).n >= 0
    /\ GetItem(d, tok.keyName).n < 256 ^ tok.size

C9_AtMostOneLengthAndChecksum ==
    Constructed =>
        /\ Cardinality(TokenIndexes("length")) <= 1
        /\ Cardinality(TokenIndexes("checksum")) <= 1

\* C10: decode of a valid packet of a template that ends in the default
\* Checksum, after one bit of one byte was flipped, reports
\* ChecksumMismatch.
C10_BitFlipDetected ==
    \A c \in Callers :
        (/\ pc[c] = "decoded" /\ corrupted[c]
         /\ Tokens[Len(Tokens)].type = "checksum"
         /\ Tokens[Len(Tokens)].CRCInstance = CRC(7)) =>
            decoded[c].k = "ChecksumMismatch"

\* a caller has called decode with a list of byte values
DecodeCalled(c) ==
    /\ pc[c] = "decoded" /\ called[c] = "decode"
    /\ passed[c].k = "list"
    /\ \A i \in 1..Len(passed[c].l) : passed[c].l[i].k = "int"
\* what decode is to return: the pair of the field mapping and the remainder
IsDecodeResult(v) ==
    v.k = "tuple" /\ Len(v.l) = 2 /\ v.l[1].k = "dict" /\ v.l[2].k = "list"
EndsInChecksum == Len(Tokens) > 0 /\ Tokens[Len(Tokens)].type = "checksum"
\* the last byte of a list is not the CRC of the bytes before it
ChecksumDiffers(bytes) ==
    /\ Len(bytes) > 0
    /\ CRC_generate(Tokens[Len(Tokens)].CRCInstance,
                    SubSeq(bytes, 1, Len(bytes) - 1)) # bytes[Len(bytes)]

\* C11: when decode finds that the CRC recomputed over the bytes before the
\* checksum differs from the transmitted checksum, it signals
\* ChecksumMismatch and the signal carries the field mapping decoded so far.
C11_ChecksumMismatchKeepsMapping ==
    \A c \in Callers :
        (DecodeCalled(c) /\ EndsInChecksum /\ ChecksumDiffers(passed[c].l)) =>
            /\ decoded[c].k = "ChecksumMismatch"
            /\ Len(decoded[c].l) > 0
            /\ decoded[c].l[1].k = "dict"

\* the count held by the length byte of a list given to the frame template
FrameCount(bytes) == bytes[5].n

\* C12: decoding with the frame template, the payload consumes exactly the
\* count of bytes the decoded length byte gives, and decode fails with
\* InvalidLengthError when that count runs past the end of the bytes.
C12_LengthGovernsPayload ==
    \A c \in Callers :
        (DecodeCalled(c) /\ tmpl[1] = FrameTemplate /\ Len(passed[c].l) >= 5) =>
            IF 5 + FrameCount(passed[c].l) > Len(passed[c].l)
            THEN decoded[c].k = "InvalidLengthError"
            ELSE /\ IsDecodeResult(decoded[c])
                 /\ HasKey(decoded[c].l[1], "payload")
                 /\ GetItem(decoded[c].l[1], "payload") =
                        PyList(SubSeq(passed[c].l, 6, 5 + FrameCount(passed[c].l)))

IsSuffix(t, s) == \E n \in 0..Len(s) : t = SubSeq(s, n + 1, Len(s))

\* C13: decode returns the pair (field mapping, remainder), the remainder a
\* suffix of the input; for the bytes of the encoded frame example it returns
\* {start:72, addr:1, port:72, len:3, payload:[1,2,3]} and an empty
\* remainder.
C13_DecodeReturnsMappingAndRemainder ==
    \A c \in Callers :
        DecodeCalled(c) =>
            /\ IsDecodeResult(decoded[c])
            /\ IsSuffix(decoded[c].l[2].l, passed[c].l)
            /\ (tmpl[1] = FrameTemplate /\ inputDict[c] = FrameExample
                 /\ passed[c].l = result[c].l) =>
                   /\ decoded[c].l[2].l = <<>>
                   /\ \A key \in {"start", "addr", "port", "payload"} :
                          /\ HasKey(decoded[c].l[1], key)
                          /\ GetItem(decoded[c].l[1], key)
                                 = GetItem(FrameExample, key)
                   /\ HasKey(decoded[c].l[1], "len")
                   /\ GetItem(decoded[c].l[1], "len") = PyInt(3)

LookedUp(c) == pc[c] = "decoded" /\ called[c] = "findTokenPosition"
KeyNames == {Tokens[i].keyName : i \in 1..Len(Tokens)}

\* C14: findTokenPosition(keyName, bytes) returns (startOffset, endOffset,
\* token) for a keyName of the template, for "port" in the encoded frame
\* packet the span (3, 4) that follows the two bytes of "addr", and fails
\* with UnknownKeyError for a keyName that is not in the template.
C14_FindTokenPosition ==
    \A c \in Callers :
        LookedUp(c) =>
            IF passed[c].key \in KeyNames
            THEN /\ decoded[c].k = "tuple" /\ Len(decoded[c].l) = 3
                 /\ (tmpl[1] = FrameTemplate /\ passed[c].key = "port") =>
                        (decoded[c].l[1] = PyInt(3) /\ decoded[c].l[2] = PyInt(4))
            ELSE decoded[c].k = "UnknownKeyError"

IsByte(e) == e.k = "int" /\ e.n \in 0..255
PassThrough(tok) == tok.type \in {"pList", "packet"}
\* the elements the mapping supplies for the PList and EmbeddedPacket tokens
\* of the template T, and for those of the child templates of its
\* NestedTemplate tokens, in token order, nested lists opened
RECURSIVE SuppliedTo(_, _)
SuppliedTo(T, d) ==
    flattenList(
        [i \in 1..Len(T.template) |->
            LET tok == T.template[i]
            IN  IF ~(d.k = "dict" /\ HasKey(d, tok.keyName)) THEN PyList(<<>>)
                ELSE IF PassThrough(tok) THEN GetItem(d, tok.keyName)
                ELSE IF tok.type = "packetTemplate"
                     THEN PyList(SuppliedTo(tok.template[1],
                                            GetItem(d, tok.keyName)))
                ELSE PyList(<<>>)])
Supplied(d) == SuppliedTo(tmpl[1], d)
NotBytes(s) == SelectSeq(s, LAMBDA e : ~IsByte(e))

\* C15 (as amended): every packet returned by encode is a flat sequence, with
\* no list or packet left inside it; the elements that are not byte values
\* 0..255 are exactly, and in order, the elements of that kind that the
\* mapping supplies for PList and EmbeddedPacket tokens, of the template or
\* of a child template under a NestedTemplate token, which are passed
\* through unchanged; so the packet holds only bytes when those values do.
C15_FlatAndBytesUnlessPassedThrough ==
    \A c \in Callers :
        Returned(c) =>
            /\ \A i \in 1..Len(result[c].l) :
                   result[c].l[i].k \notin {"list", "serializedPacket"}
            /\ NotBytes(result[c].l) = NotBytes(Supplied(inputDict[c]))

\* a returned packet holds a str that came through a PList token of the
\* template, out of a nested list, and 300 that came through the PList token
\* of a child template
C15_Witness ==
    \E c \in Callers :
        /\ Returned(c)
        /\ \E i \in 1..Len(Tokens) :
               /\ PassThrough(Tokens[i])
               /\ \E j \in 1..Len(GetItem(inputDict[c], Tokens[i].keyName).l) :
                      GetItem(inputDict[c], Tokens[i].keyName).l[j].k = "list"
        /\ \E i \in TokenIndexes("packetTemplate") :
               /\ \E j \in 1..Len(Tokens[i].template[1].template) :
                      PassThrough(Tokens[i].template[1].template[j])
               /\ \E k \in 1..Len(inProcessPacket[c][i].l) :
                      inProcessPacket[c][i].l[k] = PyInt(300)
        /\ NotBytes(result[c].l) = <<PyStr(<<"a">>), PyInt(300)>>

\* C15 as first stated: every element of a returned packet is an integer
\* byte value 0..255, whatever values the mapping supplies.
C15_Original ==
    \A c \in Callers :
        Returned(c) => \A i \in 1..Len(result[c].l) : IsByte(result[c].l[i])

\* the number of bytes of a token of fixed width
Width(tok) == IF tok.type = "checksum" THEN 1 ELSE tok.size
FixedWidth(tok) == tok.type \in {"unsignedInt", "length", "checksum"}
BytesBefore(c, i) == flattenList(SubSeq(inProcessPacket[c], 1, i - 1))
BytesAfter(c, i) ==
    flattenList(SubSeq(inProcessPacket[c], i + 1, Len(inProcessPacket[c])))

\* C16: an EmbeddedPacket token given a sequence of bytes, a plain list or a
\* packet of an earlier encode, puts exactly those bytes, unchanged and in
\* order, at its position: the returned packet is the bytes of the tokens
\* before it, the embedded bytes, and the bytes of the tokens after it, and
\* the embedded bytes start after the widths of the tokens before.
C16_EmbeddedPacketVerbatim ==
    \A c \in Callers :
        (pc[c] = "done" /\ result[c].k = "serializedPacket") =>
            \A i \in TokenIndexes("packet") :
                LET given == GetItem(inputDict[c], Tokens[i].keyName)
                IN  (\A j \in 1..Len(given.l) : given.l[j].k = "int") =>
                        /\ result[c].l =
                               BytesBefore(c, i) \o given.l \o BytesAfter(c, i)
                        /\ (\A j \in 1..(i - 1) : FixedWidth(Tokens[j])) =>
                               Len(BytesBefore(c, i)) =
                                   SumOver([j \in 1..Len(Tokens) |-> Width(Tokens[j])],
                                           1..(i - 1))

C16_Witness ==
    \E c \in Callers :
        /\ Constructed /\ tmpl[1] = FrameTemplate
        /\ pc[c] = "done" /\ result[c].k = "serializedPacket"
        /\ GetItem(inputDict[c], "payload") = embeddedBytes
        /\ BytesOf(result[c]) =
               <<72, 1, 0, 72, 7, 1, 2, 3>>
               \o <<CRC_generate(7, Ints(<<72, 1, 0, 72, 7, 1, 2, 3>>)).n>>

Last(s) == s[Len(s)]
Front(s) == SubSeq(s, 1, Len(s) - 1)
\* the bytes the child template of the model (addr in two bytes, a length
\* byte that counts itself, url, checksum) is to make of a sub-mapping,
\* written out from the sub-mapping alone; the child template that holds
\* one list token is to make the elements of the list
ChildBytesOf(child, sub) ==
    IF child = listChild THEN flattenList(GetItem(sub, "p").l)
    ELSE LET addr == GetItem(sub, "addr").n
             url == GetItem(sub, "url").l
             body == <<PyInt(addr % 256), PyInt(addr \div 256),
                       PyInt(2 + Len(url) + 1)>>
                     \o [k \in 1..Len(url) |-> PyInt(Ord(url[k].key))]
         IN  body \o <<CRC_generate(7, body)>>

\* C17: a NestedTemplate token encodes the sub-mapping stored under its
\* keyName with the child template and puts the child's bytes at its
\* position; the child's length and checksum are computed over the child's
\* bytes only, and the parent's length counts, and the parent's checksum
\* covers, every byte of the child.
C17_NestedTemplate ==
    \A c \in Callers :
        (pc[c] = "done" /\ result[c].k = "serializedPacket") =>
            \A i \in TokenIndexes("packetTemplate") :
                LET sub == GetItem(inputDict[c], Tokens[i].keyName)
                    child == inProcessPacket[c][i]
                IN  /\ child.k = "serializedPacket"
                    /\ child.t = Tokens[i].template
                    /\ child.l = ChildBytesOf(Tokens[i].template[1], sub)
                    /\ result[c].l = BytesBefore(c, i) \o child.l \o BytesAfter(c, i)
                    /\ \A j \in TokenIndexes("length") :
                           inProcessPacket[c][j] =
                               PyList(<<PyInt(Len(result[c].l) - LengthBytes
                                               - ChecksumBytes)>>)
                    /\ EndsInChecksum =>
                           Last(result[c].l) =
                               CRC_generate(Last(Tokens).CRCInstance,
                                            Front(result[c].l))

C17_Witness ==
    \E c \in Callers :
        /\ Constructed /\ TokenIndexes("packetTemplate") # {}
        /\ pc[c] = "done" /\ result[c].k = "serializedPacket"
        /\ Len(result[c].l) = 9
        /\ SubSeq(BytesOf(result[c]), 1, 7) = <<72, 7, 1, 4, 5, 97, 98>>
        /\ result[c].l[8] = CRC_generate(7, Ints(<<1, 4, 5, 97, 98>>))

\* a call of caller c is under way or has ended and its mapping is still held
Holding(c) == pc[c] # "idle"

\* C18: no step of an encode, decode, lookup or direct call, successful or
\* failing, changes the template's name, its token list or an attribute of
\* a token once the template is constructed, and none changes the mapping a
\* caller passed in.
C18_TemplateAndMappingUnchanged ==
    [][/\ Constructed => tmpl' = tmpl
       /\ \A c \in Callers :
              (Holding(c) /\ pc'[c] # "idle") => inputDict'[c] = inputDict[c]]_vars

C18_Witness ==
    \E c \in Callers :
        /\ Constructed /\ pc[c] = "decoded"
        /\ result[c].k = "serializedPacket" /\ IsError(decoded[c])
        /\ HasKey(inputDict[c], "len") /\ HasKey(inputDict[c], "payload")

\* C19: calling the template directly with a dict returns what
\* template.encode returns for it, and calling it with a list or with a
\* packet of an earlier encode returns the decoded dictionary.
C19_CallDispatch ==
    \A c \in Callers :
        called[c] = "__call__" =>
            /\ (pc[c] = "done" /\ passed[c].k = "dict") =>
                   result[c] = template_encode(tmpl[1], passed[c], <<>>)
            /\ (pc[c] = "decoded" /\ passed[c].k \in {"list", "serializedPacket"}) =>
                   decoded[c].k = "dict"

\* the keys of the Length and Checksum tokens of the template
PostProcessingKeys ==
    {Tokens[i].keyName : i \in TokenIndexes("length") \cup TokenIndexes("checksum")}
\* a mapping without the values stored under those keys
Strip(d) == PyDict(SelectSeq(d.l, LAMBDA item : item.key \notin PostProcessingKeys))

\* C20: what encode returns does not depend on a value stored in the mapping
\* under the keyName of a Length or Checksum token: it returns, or raises,
\* what it does for the mapping without those values, and for the frame
\* example with values under "len" and "crc" the length byte is still 7.
C20_PostProcessingIgnoresMapping ==
    \A c \in Callers :
        pc[c] = "done" =>
            /\ result[c] = template_encode(tmpl[1], Strip(inputDict[c]), <<>>)
            /\ (tmpl[1] = FrameTemplate /\ Strip(inputDict[c]) = FrameExample) =>
                   BytesOf(result[c]) =
                       <<72, 1, 0, 72, 7, 1, 2, 3>>
                       \o <<CRC_generate(7, Ints(<<72, 1, 0, 72, 7, 1, 2, 3>>)).n>>

C20_Witness ==
    \E c \in Callers :
        /\ Constructed /\ pc[c] = "done" /\ result[c].k = "serializedPacket"
        /\ \E i \in TokenIndexes("length") :
               /\ HasKey(inputDict[c], Tokens[i].keyName)
               /\ inProcessPacket[c][i] # PyList(<<GetItem(inputDict[c], Tokens[i].keyName)>>)
        /\ \E i \in TokenIndexes("checksum") : HasKey(inputDict[c], Tokens[i].keyName)
        /\ Strip(inputDict[c]) # inputDict[c]


\* ---------------------------------------------------------- units claims
PowerOf(items, thisUnit) ==
    IF thisUnit \in DOMAIN items THEN items[thisUnit] ELSE 0

\* the powers of left mixed with sign times the powers of right, the units
\* whose power comes to 0 left out
MixedPowers(left, right, sign) ==
    [thisUnit \in {u \in (DOMAIN left) \cup (DOMAIN right) :
                      PowerOf(left, u) + sign * PowerOf(right, u) # 0}
        |-> PowerOf(left, thisUnit) + sign * PowerOf(right, thisUnit)]

Multiplied == op = "mul" /\ IsDictionary(rhs)
Divided == op = "div" /\ IsDictionary(rhs)

MixedAsStated ==
    /\ Multiplied =>
           /\ outcome.type = "unitDictionary"
           /\ outcome.units = MixedPowers(lhs.units, rhs.units, 1)
    /\ Divided =>
           /\ outcome.type = "unitDictionary"
           /\ outcome.units = MixedPowers(lhs.units, rhs.units, 0 - 1)
    /\ (op = "mul" /\ ~IsDictionary(rhs)) => outcome.type = "UnitError"

\* C21: a unitDictionary multiplication or division leaves both operands as
\* they were and returns a new dictionary in which every unit has the sum
\* (for *) or the difference (for /) of the operands' powers, a unit of one
\* operand only keeps its power (negated for the right operand of /), no
\* unit has power 0, and multiplying by anything but a unitDictionary or a
\* dict raises UnitError.
C21_MulDivMixPowers ==
    [][(op = "none" /\ op' \in {"mul", "div"}) =>
           /\ lhs' = lhs
           /\ rhs' = rhs
           /\ MixedAsStated']_vars


\* C22: adding or subtracting two dFloat values whose unit dictionaries
\* differ raises UnitError; with equal units, or with a plain number as the
\* other operand, the operation returns a dFloat that carries the units of
\* the dFloat operand.
C22_AddSubChecksUnits ==
    /\ (op \in {"add", "sub"} /\ IsNumber(rhs)) =>
           IF rhs.type = "dFloat" /\ lhs.units # rhs.units
           THEN outcome.type = "UnitError"
           ELSE outcome.type = "dFloat" /\ outcome.units = lhs.units
    /\ op = "radd" =>
           outcome.type = "dFloat" /\ outcome.units = rhs.units

====
